---------------------------- MODULE Spec2Model ----------------------------
(***************************************************************************)
(* A model of the qvass quantum circuit simulator: Gate, MappedGate,       *)
(* Circuit and QuantumSimulator (src/src/gate.rs, circuit.rs,              *)
(* simulator.rs).                                                          *)
(*                                                                         *)
(* Amplitudes.  The code computes with Complex64.  The model computes      *)
(* exactly in the ring Z[w][1/2], w = e^(i*pi/4): an amplitude is the      *)
(* tuple <<a0, a1, a2, a3, k>> standing for                                *)
(*        (a0 + a1*w + a2*w^2 + a3*w^3) / 2^k,      w^4 = -1,               *)
(* kept reduced (k is as small as possible), so that equal numbers are     *)
(* equal tuples.  1/sqrt(2) = (w - w^3)/2 lies in the ring, and so does    *)
(* every phase e^(2*pi*i*j/8).  Floating-point rounding is not modelled.   *)
(*                                                                         *)
(* Slices.  A Rust slice s of length L is the sequence of its elements;    *)
(* the element s[i] of the code is s[i + 1] of the model.                  *)
(***************************************************************************)
EXTENDS Integers, Sequences, FiniteSets, TLC

VARIABLES
    n_qubits,   \* the n of QuantumSimulator::new(n)
    circuit,    \* QuantumSimulator.circuit : [qubit_count, gates]
    state,      \* QuantumSimulator.state.0 : sequence of 2^n amplitudes
    last,       \* the last call made on the simulator and what it returned
    runs,       \* run() calls made since the state was last initialised
    aborted,    \* the process has panicked
    pc,         \* position of the harness (the specifications of single calls)
    inp,        \* its inputs
    out         \* its outputs

vars == <<n_qubits, circuit, state, last, runs, aborted, pc, inp, out>>

simVars == <<n_qubits, circuit, state, last, runs, aborted>>
harnessVars == <<pc, inp, out>>

-----------------------------------------------------------------------------
(* Bounds of the model *)

MaxQubits == 2      \* simulators of 1..MaxQubits qubits
MaxGates == 2       \* gates appended to the simulator's circuit
MaxLen == 2         \* length of a qubit index list given to add_gate
MaxRuns == 2        \* run() calls on one initialised state
MaxHQubits == 3     \* qubits of the circuits of the single-call harness
MaxHLen == 3        \* length of its qubit index lists
MaxRTGates == 2     \* gates of the circuits of the round-trip harness
MaxProbeBits == 7   \* probes of the GHZ and QFT runs are the multiples of 2^-MaxProbeBits
WordBits == 4       \* bits of the machine word of the classical helpers (u64/i64 scaled down)

-----------------------------------------------------------------------------
(* Program constants *)

MAX_QUBITS == 32
UsizeBits == 64         \* usize on the 64-bit targets
UsizeBytesLog2 == 3     \* size_of::<usize>() = 8 = 2^3
I32Bits == 32           \* the integer literal of `1 << (i - j + 1)` falls back to i32
U8Max == 255            \* qubit_count: u8
Complex64BytesLog2 == 4 \* size_of::<Complex64>() = 16
ExactPhaseLog2 == 3     \* phase fractions k/2^3 give the amplitudes the model holds exactly

-----------------------------------------------------------------------------
(* Bit operations on usize (values stay far below 2^31 in the model) *)

RECURSIVE BitAnd(_, _)
BitAnd(x, y) ==
    IF x = 0 \/ y = 0 THEN 0
    ELSE (x % 2) * (y % 2) + 2 * BitAnd(x \div 2, y \div 2)

RECURSIVE BitOr(_, _)
BitOr(x, y) ==
    IF x = 0 THEN y
    ELSE IF y = 0 THEN x
    ELSE (IF x % 2 = 1 \/ y % 2 = 1 THEN 1 ELSE 0) + 2 * BitOr(x \div 2, y \div 2)

\* x & !m
BitAndNot(x, m) == x - BitAnd(x, m)

\* 1 << b
Shl1(b) == 2 ^ b

-----------------------------------------------------------------------------
(* Complex64, exactly: <<a0, a1, a2, a3, k>> = (a0 + a1 w + a2 w^2 + a3 w^3) / 2^k *)

RECURSIVE Reduce(_)
Reduce(x) ==
    IF x[5] > 0 /\ x[1] % 2 = 0 /\ x[2] % 2 = 0 /\ x[3] % 2 = 0 /\ x[4] % 2 = 0
    THEN Reduce(<<x[1] \div 2, x[2] \div 2, x[3] \div 2, x[4] \div 2, x[5] - 1>>)
    ELSE x

CZero == <<0, 0, 0, 0, 0>>
COne == <<1, 0, 0, 0, 0>>
ComplexInt(m) == <<m, 0, 0, 0, 0>>

\* x with its numerators scaled to the denominator 2^k (k >= x[5])
Scaled(x, k) ==
    LET f == 2 ^ (k - x[5]) IN <<x[1] * f, x[2] * f, x[3] * f, x[4] * f, k>>

CAdd(x, y) ==
    LET k == IF x[5] > y[5] THEN x[5] ELSE y[5]
        a == Scaled(x, k)
        b == Scaled(y, k)
    IN  Reduce(<<a[1] + b[1], a[2] + b[2], a[3] + b[3], a[4] + b[4], k>>)

CNeg(x) == <<-x[1], -x[2], -x[3], -x[4], x[5]>>

CSub(x, y) == CAdd(x, CNeg(y))

\* polynomial product modulo w^4 = -1
CMul(x, y) ==
    Reduce(<<
        x[1]*y[1] - x[2]*y[4] - x[3]*y[3] - x[4]*y[2],
        x[1]*y[2] + x[2]*y[1] - x[3]*y[4] - x[4]*y[3],
        x[1]*y[3] + x[2]*y[2] + x[3]*y[1] - x[4]*y[4],
        x[1]*y[4] + x[2]*y[3] + x[3]*y[2] + x[4]*y[1],
        x[5] + y[5] >>)

\* Complex64::conj: conj(w) = w^-1 = -w^3
CConj(x) == <<x[1], -x[4], -x[3], -x[2], x[5]>>

\* Mutant of FRAC_1_SQRT_2: the factor 1/2
FRAC_1_2 == <<1, 0, 0, 0, 1>>

\* core::f64::consts::FRAC_1_SQRT_2 = (w - w^3) / 2
FRAC_1_SQRT_2 == <<0, 1, 0, -1, 1>>

RECURSIVE OmegaPow(_)
OmegaPow(j) ==
    IF j = 0 THEN COne ELSE CMul(<<0, 1, 0, 0, 0>>, OmegaPow(j - 1))

(* Real numbers of the form (p + q*sqrt2) / 2^e, as <<p, q, e>>: the squared *)
(* norms of the amplitudes and their sums.                                  *)
RECURSIVE RReduce(_)
RReduce(r) ==
    IF r[3] > 0 /\ r[1] % 2 = 0 /\ r[2] % 2 = 0
    THEN RReduce(<<r[1] \div 2, r[2] \div 2, r[3] - 1>>)
    ELSE r

RZero == <<0, 0, 0>>
ROne == <<1, 0, 0>>

RAdd(r, s) ==
    LET e == IF r[3] > s[3] THEN r[3] ELSE s[3]
        f == 2 ^ (e - r[3])
        g == 2 ^ (e - s[3])
    IN  RReduce(<<r[1] * f + s[1] * g, r[2] * f + s[2] * g, e>>)

RSub(r, s) == RAdd(r, <<-s[1], -s[2], s[3]>>)

\* the sign of p + q*sqrt2
RSign(r) ==
    LET p == r[1]
        q == r[2]
    IN  IF p = 0 /\ q = 0 THEN 0
        ELSE IF p >= 0 /\ q >= 0 THEN 1
        ELSE IF p <= 0 /\ q <= 0 THEN -1
        ELSE IF p > 0 THEN (IF p * p > 2 * q * q THEN 1 ELSE -1)
        ELSE (IF 2 * q * q > p * p THEN 1 ELSE -1)

\* Mutant of the comparison `>`: `>=`
RGreaterOrEqual(r, s) == RSign(RSub(r, s)) >= 0

RGreater(r, s) == RSign(RSub(r, s)) > 0

\* Complex64::norm_sqr: |x|^2 = x * conj(x), a real number
norm_sqr(x) ==
    RReduce(<<
        x[1]*x[1] + x[2]*x[2] + x[3]*x[3] + x[4]*x[4],
        x[1]*x[2] + x[2]*x[3] + x[3]*x[4] - x[4]*x[1],
        2 * x[5] >>)

-----------------------------------------------------------------------------
(* Gate (gate.rs): a tagged variant *)

Hadamard == [kind |-> "Hadamard"]
Not == [kind |-> "Not"]
Swap == [kind |-> "Swap"]
Phase(c) == [kind |-> "Phase", phase |-> c]
Controlled(g) == [kind |-> "Controlled", inner |-> g]
CircuitGate(c) == [kind |-> "Circuit", circuit |-> c]

\* Gate::phase_fraction(j/8) = Phase(e^(2*pi*i*j/8))
phase_fraction8(j) == Phase(OmegaPow(j % 8))

RECURSIVE multi_control(_, _)
multi_control(g, m) == IF m = 0 THEN g ELSE Controlled(multi_control(g, m - 1))

\* Gate::phase_fraction(num / 2^e) = Phase(e^(2 pi i num / 2^e)): an eighth root
\* of unity is kept as an amplitude, any other phase by its fraction
phase_fraction(num, e) ==
    IF e <= ExactPhaseLog2
    THEN Phase(OmegaPow((num * 2 ^ (ExactPhaseLog2 - e)) % 2 ^ ExactPhaseLog2))
    ELSE Phase(<<"exp_2_pi_i", num, e>>)

\* Mutant of Gate::cnot: the control is dropped
cnot_uncontrolled == Not

cnot == Controlled(Not)
toffoli == Controlled(cnot)
fredkin == Controlled(Swap)

RECURSIVE count_controlled(_)
count_controlled(g) ==
    IF g.kind = "Controlled" THEN count_controlled(g.inner) + 1 ELSE 0

\* The value standing for a panic where a slice is expected (no slice of the
\* program is empty).
Panic == <<>>

-----------------------------------------------------------------------------
(* MappedGate (circuit.rs) *)

\* Mutant of calc_local_bit_pos: no remapping, every qubit keeps its list position
calc_local_bit_pos_no_remap(input_index, qubit_count, n_controlled) == input_index

\* Mutant of calc_local_bit_pos: the "- 1" of the control branch is missing
calc_local_bit_pos_off_by_one(input_index, qubit_count, n_controlled) ==
    IF input_index < n_controlled
    THEN qubit_count - input_index
    ELSE input_index - n_controlled

calc_local_bit_pos(input_index, qubit_count, n_controlled) ==
    IF input_index < n_controlled
    THEN qubit_count - input_index - 1
    ELSE input_index - n_controlled

\* vec![0; 1 << qubit_count] of usize: the allocation panics ("capacity
\* overflow") once 2^qubit_count * 8 bytes exceed isize::MAX, and the shift
\* itself overflows from qubit_count = 64 on.
AllocAborts(qubit_count) == qubit_count + UsizeBytesLog2 >= UsizeBits - 1

Some(v) == <<v>>
None == <<>>

\* The body of the loop of MappedGate::new over the state_map, for one qubit
set_local_bit(state_map, local_bit_pos, qubit_mask) ==
    [i \in 1..Len(state_map) |->
        IF BitAnd(i - 1, Shl1(local_bit_pos)) # 0
        THEN BitOr(state_map[i], qubit_mask)
        ELSE state_map[i]]

\* The loop of MappedGate::new from list position input_index on
RECURSIVE new_loop(_, _, _, _, _, _, _)
new_loop(gate, qubits, max_qubits, n_controlled, input_index, state_map, qubits_mask) ==
    IF input_index >= Len(qubits)
    THEN [res |-> "Ok",
          mg |-> [gate |-> gate, state_map |-> state_map, qubits_mask |-> qubits_mask]]
    ELSE
        LET qubit_index == qubits[input_index + 1]
            local_bit_pos == calc_local_bit_pos(input_index, Len(qubits), n_controlled)
            qubit_mask == Shl1(qubit_index)
        IN  IF max_qubits # None /\ qubit_index >= max_qubits[1]
            THEN [res |-> "IndexOutOfBounds", mg |-> <<>>]
            ELSE IF BitAnd(qubits_mask, qubit_mask) # 0
            THEN [res |-> "DuplicatedIndex", mg |-> <<>>]
            ELSE new_loop(gate, qubits, max_qubits, n_controlled, input_index + 1,
                          set_local_bit(state_map, local_bit_pos, qubit_mask),
                          BitOr(qubits_mask, qubit_mask))

\* MappedGate::new(gate, qubit_indices, max_qubits): res is "Ok" (with the
\* MappedGate mg), one of the two QubitErrors, or "Abort" (a panic).
MappedGate_new(gate, qubits, max_qubits) ==
    IF AllocAborts(Len(qubits))
    THEN [res |-> "Abort", mg |-> <<>>]
    ELSE new_loop(gate, qubits, max_qubits, count_controlled(gate), 0,
                  [i \in 1..Shl1(Len(qubits)) |-> 0], 0)

\* Mutant of the outer_index step: the "| qubits_mask" is missing
next_outer_index_no_or(outer_index, qubits_mask) ==
    BitAndNot(outer_index + 1, qubits_mask)

\* outer_index = ((outer_index | qubits_mask) + 1) & !qubits_mask
next_outer_index(outer_index, qubits_mask) ==
    BitAndNot(BitOr(outer_index, qubits_mask) + 1, qubits_mask)

\* for (i, inner_index) in state_map: state[outer_index | inner_index] = substate[i]
RECURSIVE scatter(_, _, _, _)
scatter(st, indices, substate, i) ==
    IF i > Len(indices) THEN st
    ELSE scatter([st EXCEPT ![indices[i] + 1] = substate[i]], indices, substate, i + 1)

RECURSIVE Gate_apply(_, _)
RECURSIVE Circuit_apply(_, _)
RECURSIVE apply_blocks(_, _, _, _, _)

\* The block loop of MappedGate::apply with `todo` iterations left; blocks
\* records, per iteration made, outer_index and the state indices it used.
apply_blocks(mg, st, outer_index, todo, blocks) ==
    IF todo = 0 THEN [state |-> st, blocks |-> blocks]
    ELSE
        LET indices == [i \in 1..Len(mg.state_map) |-> BitOr(outer_index, mg.state_map[i])]
            visited == Append(blocks, [outer_index |-> outer_index, indices |-> indices])
        IN  IF \E i \in 1..Len(indices) : indices[i] >= Len(st)
            THEN [state |-> Panic, blocks |-> visited]      \* index out of bounds
            ELSE
                LET substate == Gate_apply(mg.gate, [i \in 1..Len(indices) |-> st[indices[i] + 1]])
                IN  IF substate = Panic
                    THEN [state |-> Panic, blocks |-> visited]
                    ELSE apply_blocks(mg, scatter(st, indices, substate, 1),
                                      next_outer_index(outer_index, mg.qubits_mask),
                                      todo - 1, visited)

\* MappedGate::apply(&self, state), with the record of its block iterations
MappedGate_apply(mg, st) ==
    apply_blocks(mg, st, 0, Len(st) \div Len(mg.state_map), <<>>)

\* Gate::apply(&self, state): the new contents of the slice, or Panic
Gate_apply(g, s) ==
    CASE g.kind = "Hadamard" ->
            IF Len(s) < 2 THEN Panic
            ELSE [s EXCEPT ![1] = CMul(FRAC_1_SQRT_2, CAdd(s[1], s[2])),
                           ![2] = CMul(FRAC_1_SQRT_2, CSub(s[1], s[2]))]
      [] g.kind = "Not" ->
            IF Len(s) < 2 THEN Panic
            ELSE [s EXCEPT ![1] = s[2], ![2] = s[1]]
      [] g.kind = "Swap" ->
            IF Len(s) < 3 THEN Panic
            ELSE [s EXCEPT ![2] = s[3], ![3] = s[2]]
      [] g.kind = "Phase" ->
            IF Len(s) < 2 THEN Panic
            ELSE [s EXCEPT ![2] = CMul(s[2], g.phase)]
      [] g.kind = "Controlled" ->
            LET substate_middle == Len(s) \div 2
                upper == Gate_apply(g.inner, SubSeq(s, substate_middle + 1, Len(s)))
            IN  IF upper = Panic THEN Panic
                ELSE SubSeq(s, 1, substate_middle) \o upper
      [] g.kind = "Circuit" -> Circuit_apply(g.circuit, s)

RECURSIVE apply_gates(_, _, _)
apply_gates(gates, j, st) ==
    IF j > Len(gates) \/ st = Panic THEN st
    ELSE apply_gates(gates, j + 1, MappedGate_apply(gates[j], st).state)

Reverse(q) == [j \in 1..Len(q) |-> q[Len(q) + 1 - j]]

\* Mutant of Circuit::apply: the gates are applied last to first
Circuit_apply_reversed(c, st) == apply_gates(Reverse(c.gates), 1, st)

\* Circuit::apply(&self, state): for gate in &self.gates { gate.apply(state) }
Circuit_apply(c, st) == apply_gates(c.gates, 1, st)

-----------------------------------------------------------------------------
(* Gate::inverse, Circuit (circuit.rs) *)

RECURSIVE Gate_inverse(_)
RECURSIVE Circuit_inverse(_)

\* Mutant of Gate::inverse: the phase is not conjugated
Gate_inverse_no_conj(g) ==
    CASE g.kind = "Hadamard" -> Hadamard
      [] g.kind = "Not" -> Not
      [] g.kind = "Swap" -> Swap
      [] g.kind = "Phase" -> Phase(g.phase)
      [] g.kind = "Controlled" -> Controlled(Gate_inverse(g.inner))
      [] g.kind = "Circuit" -> CircuitGate(Circuit_inverse(g.circuit))

Gate_inverse(g) ==
    CASE g.kind = "Hadamard" -> Hadamard
      [] g.kind = "Not" -> Not
      [] g.kind = "Swap" -> Swap
      [] g.kind = "Phase" -> Phase(CConj(g.phase))
      [] g.kind = "Controlled" -> Controlled(Gate_inverse(g.inner))
      [] g.kind = "Circuit" -> CircuitGate(Circuit_inverse(g.circuit))

\* Mutant of Circuit::inverse: the order of the gates is kept
Circuit_inverse_no_rev(c) ==
    [qubit_count |-> c.qubit_count,
     gates |-> [j \in 1..Len(c.gates) |->
                   [gate |-> Gate_inverse(c.gates[j].gate),
                    state_map |-> c.gates[j].state_map,
                    qubits_mask |-> c.gates[j].qubits_mask]]]

\* self.gates.iter().rev().map(|mapped_gate| MappedGate {gate: inverse, ..})
Circuit_inverse(c) ==
    [qubit_count |-> c.qubit_count,
     gates |-> [j \in 1..Len(c.gates) |->
                   LET mapped_gate == c.gates[Len(c.gates) + 1 - j]
                   IN  [gate |-> Gate_inverse(mapped_gate.gate),
                        state_map |-> mapped_gate.state_map,
                        qubits_mask |-> mapped_gate.qubits_mask]]]

\* Circuit::new(qubit_count), for qubit_count <= MAX_QUBITS (the assert)
Circuit_new(qubit_count) == [qubit_count |-> Some(qubit_count), gates |-> <<>>]

\* Mutant of Circuit::add_gate: the gate is pushed before its indices are checked
Circuit_add_gate_push_first(c, gate, qubits) ==
    LET r == MappedGate_new(gate, qubits, c.qubit_count)
    IN  [res |-> r.res,
         circuit |-> [c EXCEPT !.gates =
                         Append(@, IF r.res = "Ok" THEN r.mg
                                   ELSE [gate |-> gate, state_map |-> <<0>>,
                                         qubits_mask |-> 0])]]

\* Mutant of Circuit::add_gate: the gate is inserted at the front
Circuit_add_gate_push_front(c, gate, qubits) ==
    LET r == MappedGate_new(gate, qubits, c.qubit_count)
    IN  [res |-> r.res,
         circuit |-> IF r.res = "Ok" THEN [c EXCEPT !.gates = <<r.mg>> \o @] ELSE c]

\* Circuit::add_gate: the result and the circuit after the call
Circuit_add_gate(c, gate, qubits) ==
    LET r == MappedGate_new(gate, qubits, c.qubit_count)
    IN  [res |-> r.res,
         circuit |-> IF r.res = "Ok" THEN [c EXCEPT !.gates = Append(@, r.mg)] ELSE c]

\* Circuit::from_gate: the result and, when Ok, the circuit
Circuit_from_gate(gate, qubits) ==
    LET r == MappedGate_new(gate, qubits, None)
    IN  [res |-> r.res,
         circuit |-> IF r.res = "Ok" THEN [qubit_count |-> None, gates |-> <<r.mg>>]
                     ELSE <<>>]

\* Circuit::into_gate
into_gate(c) == CircuitGate(c)

-----------------------------------------------------------------------------
(* QuantumSimulator (simulator.rs) *)

\* vec![Complex64::ZERO; 1 << n_qubits]
zero_state(n) == [i \in 1..Shl1(n) |-> CZero]

\* QuantumSimulator::new(n_qubits), for 0 < n_qubits <= MAX_QUBITS (the asserts)
QuantumSimulator_new(n) == [circuit |-> Circuit_new(n), state |-> zero_state(n)]

\* QuantumSimulator::add_gate forwards to the circuit
QuantumSimulator_add_gate(c, gate, qubits) == Circuit_add_gate(c, gate, qubits)

\* Mutant of init_state: the amplitudes are not zeroed first
init_state_no_fill(st, one_index) ==
    IF one_index >= Len(st) THEN Panic
    ELSE [st EXCEPT ![one_index + 1] = COne]

\* Mutant of init_state: only the first amplitude is zeroed
init_state_fill_first(st, one_index) ==
    IF one_index >= Len(st) THEN Panic
    ELSE [i \in 1..Len(st) |->
             IF i = one_index + 1 THEN COne ELSE IF i = 1 THEN CZero ELSE st[i]]

\* QuantumSimulator::init_state(one_index): fill(ZERO), then state[one_index] = ONE,
\* which panics for one_index >= state.len()
init_state(st, one_index) ==
    IF one_index >= Len(st) THEN Panic
    ELSE [i \in 1..Len(st) |-> IF i = one_index + 1 THEN COne ELSE CZero]

\* QuantumSimulator::run
run(c, st) == Circuit_apply(c, st)

\* The scan of measure from element `index` on: `sum` is the running sum,
\* `emitted` the last index the scan has yielded (-1: none yet).
RECURSIVE measure_scan(_, _, _, _, _)
measure_scan(st, probe, sum, index, emitted) ==
    IF index >= Len(st) THEN emitted
    ELSE IF RGreater(sum, probe) THEN emitted
    ELSE measure_scan(st, probe, RAdd(sum, norm_sqr(st[index + 1])), index + 1, index)

\* .last().unwrap_or(self.state.0.len() - 1)
measure_outcome(st, probe) ==
    LET l == measure_scan(st, probe, RZero, 0, -1)
    IN  IF l = -1 THEN Len(st) - 1 ELSE l

\* QuantumSimulator::measure with the probe the rng drew: the outcome and the
\* collapsed state
measure(st, probe) ==
    LET outcome_index == measure_outcome(st, probe)
    IN  [outcome |-> outcome_index, state |-> init_state(st, outcome_index)]

-----------------------------------------------------------------------------
(* The inputs of the simulator's calls *)

\* The elements of q are pairwise different
Distinct(q) == \A i, j \in 1..Len(q) : i # j => q[i] # q[j]

\* All sequences over S of length at most m
RECURSIVE SeqsUpTo(_, _)
SeqsUpTo(S, m) ==
    IF m = 0 THEN {<<>>}
    ELSE LET shorter == SeqsUpTo(S, m - 1)
         IN  shorter \cup {Append(q, x) : q \in {r \in shorter : Len(r) = m - 1}, x \in S}

\* A one-qubit circuit used as a gate: Hadamard, then the phase e^(i*pi/4)
SubCircuit ==
    Circuit_add_gate(
        Circuit_add_gate(Circuit_new(1), Hadamard, <<0>>).circuit,
        phase_fraction8(1), <<0>>).circuit

GateSet == {Hadamard, phase_fraction8(1), Controlled(phase_fraction8(1)), into_gate(SubCircuit)}

\* The shortest list whose state_map cannot be allocated
LongList == [i \in 1..(UsizeBits - 1 - UsizeBytesLog2) |-> 0]

\* Qubit index lists: every index in 0..MaxQubits (MaxQubits itself is out of
\* bounds for every simulator of the model), and one over-long list
QubitLists == SeqsUpTo(0..MaxQubits, MaxLen) \cup {LongList}

\* rng.gen::<f64>() lies in [0, 1): 0, 1/4, 1/2, 3/4
Probes == {<<0, 0, 0>>, <<1, 0, 2>>, <<1, 0, 1>>, <<3, 0, 2>>}

-----------------------------------------------------------------------------
(* The simulator as a state machine: one action per call *)

HarnessIdle == pc = "idle" /\ inp = <<>> /\ out = <<>>

Init ==
    /\ n_qubits \in 1..MaxQubits
    /\ circuit = QuantumSimulator_new(n_qubits).circuit
    /\ state = QuantumSimulator_new(n_qubits).state
    /\ last = [op |-> "new"]
    /\ runs = 0
    /\ aborted = FALSE
    /\ HarnessIdle

AddGate(gate, qubits) ==
    /\ ~aborted
    /\ Len(circuit.gates) < MaxGates
    /\ LET r == QuantumSimulator_add_gate(circuit, gate, qubits)
       IN  /\ circuit' = r.circuit
           /\ aborted' = (r.res = "Abort")
           /\ last' = [op |-> "add_gate", res |-> r.res]
    /\ UNCHANGED <<n_qubits, state, runs, harnessVars>>

\* The simulator's part of the calls that the trial loop below shares
InitStateCall(one_index) ==
    /\ ~aborted
    /\ LET st == init_state(state, one_index)
       IN  /\ state' = IF st = Panic THEN state ELSE st
           /\ aborted' = (st = Panic)
    /\ runs' = 0
    /\ last' = [op |-> "init_state", one_index |-> one_index]
    /\ UNCHANGED <<n_qubits, circuit>>

InitState(one_index) == InitStateCall(one_index) /\ UNCHANGED harnessVars

RunCall ==
    /\ ~aborted
    /\ runs < MaxRuns
    /\ LET st == run(circuit, state)
       IN  /\ state' = IF st = Panic THEN state ELSE st
           /\ aborted' = (st = Panic)
    /\ runs' = runs + 1
    /\ last' = [op |-> "run"]
    /\ UNCHANGED <<n_qubits, circuit>>

Run == RunCall /\ UNCHANGED harnessVars

MeasureCall(probe) ==
    /\ ~aborted
    /\ LET m == measure(state, probe)
       IN  /\ state' = m.state
           /\ last' = [op |-> "measure", probe |-> probe, outcome |-> m.outcome]
    /\ runs' = 0
    /\ UNCHANGED <<n_qubits, circuit, aborted>>

Measure(probe) == MeasureCall(probe) /\ UNCHANGED harnessVars

\* QuantumSimulator::state(&self) -> &QuantumState
StateCall ==
    /\ ~aborted
    /\ last' = [op |-> "state", value |-> state]
    /\ UNCHANGED <<n_qubits, circuit, state, runs, aborted, harnessVars>>

Inverse ==
    /\ ~aborted
    /\ last' = [op |-> "inverse", inv |-> Circuit_inverse(circuit)]
    /\ UNCHANGED <<n_qubits, circuit, state, runs, aborted, harnessVars>>

Next ==
    \/ \E gate \in GateSet, qubits \in QubitLists : AddGate(gate, qubits)
    \/ \E one_index \in 0..Shl1(n_qubits) : InitState(one_index)
    \/ Run
    \/ \E probe \in Probes : Measure(probe)
    \/ Inverse
    \/ StateCall

Spec == Init /\ [][Next]_vars

-----------------------------------------------------------------------------
(* Trials (examples/grover.rs): after any calls, init_state(i) and, possibly *)
(* after more add_gate calls, run().  pc is "trial" from the init_state to   *)
(* the run, and out holds the index, the state the init_state replaced and   *)
(* the number of gates the circuit had then.                                 *)

TrialInitState(one_index) ==
    /\ InitStateCall(one_index)
    /\ pc' = IF aborted' THEN "idle" ELSE "trial"
    /\ out' = IF aborted' THEN <<>> ELSE [one_index |-> one_index, replaced |-> state,
                                        gates_then |-> Len(circuit.gates)]
    /\ UNCHANGED inp

TrialRun ==
    /\ RunCall
    /\ pc' = IF pc = "trial" /\ ~aborted' THEN "ran" ELSE "idle"
    /\ out' = IF pc = "trial" /\ ~aborted' THEN out ELSE <<>>
    /\ UNCHANGED inp

TrialMeasure(probe) ==
    /\ MeasureCall(probe)
    /\ pc' = "idle"
    /\ out' = <<>>
    /\ UNCHANGED inp

NextTrials ==
    \/ \E gate \in GateSet, qubits \in QubitLists : AddGate(gate, qubits)
    \/ \E one_index \in 0..Shl1(n_qubits) : TrialInitState(one_index)
    \/ TrialRun
    \/ \E probe \in Probes : TrialMeasure(probe)

SpecTrials == Init /\ [][NextTrials]_vars

-----------------------------------------------------------------------------
(* Single calls: a circuit is constructed, one gate is added to it, and the  *)
(* MappedGate made is applied to a state vector.                             *)

SimIdle ==
    /\ n_qubits = 0 /\ circuit = <<>> /\ state = <<>>
    /\ last = [op |-> "none"] /\ runs = 0 /\ aborted = FALSE

\* A two-qubit circuit used as a gate: Hadamard on 0, CNOT on [0, 1]
BellCircuit ==
    Circuit_add_gate(
        Circuit_add_gate(Circuit_new(2), Hadamard, <<0>>).circuit,
        cnot, <<0, 1>>).circuit

HGates ==
    {Hadamard, Not, phase_fraction8(1), Swap, cnot, Controlled(phase_fraction8(2)),
     Controlled(Hadamard), toffoli, fredkin,
     into_gate(SubCircuit), Controlled(into_gate(SubCircuit)), into_gate(BellCircuit)}

HLists == SeqsUpTo(0..MaxHQubits, MaxHLen) \cup {LongList}

\* State vectors of 2^n amplitudes, all different: j+1 at index j, and
\* (j+1) + (2^n - j) w at index j
Ramp(n) == [i \in 1..Shl1(n) |-> ComplexInt(i)]
SkewRamp(n) == [i \in 1..Shl1(n) |-> <<i, Shl1(n) + 1 - i, 0, 0, 0>>]
TestStates(n) == {Ramp(n), SkewRamp(n)}

InitMapped ==
    /\ SimIdle
    /\ pc = "start"
    /\ inp \in {i \in [via : {"Circuit", "Simulator", "from_gate"}, n : 0..MaxHQubits,
                       gate : HGates, qubits : HLists] :
                    i.via = "Simulator" => i.n >= 1}
    /\ out = <<>>

\* Circuit::new(n).add_gate(gate, qubits), QuantumSimulator::new(n).add_gate(gate,
\* qubits) or Circuit::from_gate(gate, qubits)
CallAddGate ==
    /\ pc = "start"
    /\ out' = CASE inp.via = "Circuit" ->
                     Circuit_add_gate(Circuit_new(inp.n), inp.gate, inp.qubits)
                [] inp.via = "Simulator" ->
                     QuantumSimulator_add_gate(QuantumSimulator_new(inp.n).circuit,
                                               inp.gate, inp.qubits)
                [] inp.via = "from_gate" ->
                     Circuit_from_gate(inp.gate, inp.qubits)
    /\ pc' = "added"
    /\ UNCHANGED <<inp, simVars>>

\* self.gates[0].apply(&mut s) on a state vector of 2^n amplitudes
CallApply(s) ==
    /\ pc = "added"
    /\ out.res = "Ok"
    /\ out' = [res |-> out.res, circuit |-> out.circuit, s |-> s,
               applied |-> MappedGate_apply(out.circuit.gates[1], s)]
    /\ pc' = "applied"
    /\ UNCHANGED <<inp, simVars>>

NextMapped ==
    \/ CallAddGate
    \/ \E s \in TestStates(inp.n) : CallApply(s)

SpecMapped == InitMapped /\ [][NextMapped]_vars

-----------------------------------------------------------------------------
(* Round trips: a circuit is built gate by gate, applied to a state vector,  *)
(* and its inverse is applied to the result (gate.rs,                        *)
(* run_parameterized_gate_tests).                                            *)

\* CNOT bound to [1, 0] by Circuit::from_gate: a circuit without a qubit count
UnboundCircuit == Circuit_from_gate(cnot, <<1, 0>>).circuit

\* The gates of the round trips, each with the number of qubits it acts on
RTGates ==
    {<<Hadamard, 1>>, <<Not, 1>>, <<phase_fraction8(1), 1>>, <<into_gate(SubCircuit), 1>>,
     <<Swap, 2>>, <<cnot, 2>>, <<Controlled(phase_fraction8(3)), 2>>,
     <<into_gate(BellCircuit), 2>>, <<into_gate(UnboundCircuit), 2>>,
     <<toffoli, 3>>, <<fredkin, 3>>}

\* A gate and the list it is bound to: distinct qubits of an n-qubit state, as
\* many as the gate acts on or one more
RTBindings ==
    [n \in 1..MaxHQubits |->
        {b \in [gate : {g[1] : g \in RTGates}, qubits : SeqsUpTo(0..(n - 1), MaxHLen)] :
            /\ Distinct(b.qubits)
            /\ \E g \in RTGates : g[1] = b.gate /\ Len(b.qubits) \in {g[2], g[2] + 1}}]

InitRoundTrip ==
    /\ SimIdle
    /\ pc = "start"
    /\ inp \in [via : {"Circuit", "from_gate"}, n : 1..MaxHQubits]
    /\ out = <<>>

\* Circuit::new(n)
RTNew ==
    /\ pc = "start"
    /\ inp.via = "Circuit"
    /\ out' = [circuit |-> Circuit_new(inp.n)]
    /\ pc' = "build"
    /\ UNCHANGED <<inp, simVars>>

\* Circuit::from_gate(gate, qubits).unwrap()
RTFromGate(gate, qubits) ==
    /\ pc = "start"
    /\ inp.via = "from_gate"
    /\ LET r == Circuit_from_gate(gate, qubits)
       IN  /\ r.res = "Ok"
           /\ out' = [circuit |-> r.circuit]
    /\ pc' = "build"
    /\ UNCHANGED <<inp, simVars>>

\* circuit.add_gate(gate, qubits)
RTAddGate(gate, qubits) ==
    /\ pc = "build"
    /\ inp.via = "Circuit"
    /\ Len(out.circuit.gates) < MaxRTGates
    /\ out' = [circuit |-> Circuit_add_gate(out.circuit, gate, qubits).circuit]
    /\ UNCHANGED <<pc, inp, simVars>>

\* let mut state = s.clone(); circuit.apply(&mut state)
RTApply(s) ==
    /\ pc = "build"
    /\ out' = [circuit |-> out.circuit, s |-> s,
               applied |-> Circuit_apply(out.circuit, s)]
    /\ pc' = "applied"
    /\ UNCHANGED <<inp, simVars>>

\* let inverse_circuit = circuit.inverse(); inverse_circuit.apply(&mut state)
RTInverseApply ==
    /\ pc = "applied"
    /\ out.applied # Panic
    /\ LET inverse_circuit == Circuit_inverse(out.circuit)
       IN  out' = [circuit |-> out.circuit, s |-> out.s, applied |-> out.applied,
                   inverse_circuit |-> inverse_circuit,
                   back |-> Circuit_apply(inverse_circuit, out.applied)]
    /\ pc' = "back"
    /\ UNCHANGED <<inp, simVars>>

NextRoundTrip ==
    \/ RTNew
    \/ \E b \in RTBindings[inp.n] : RTFromGate(b.gate, b.qubits)
    \/ \E b \in RTBindings[inp.n] : RTAddGate(b.gate, b.qubits)
    \/ \E s \in TestStates(inp.n) : RTApply(s)
    \/ RTInverseApply

SpecRoundTrip == InitRoundTrip /\ [][NextRoundTrip]_vars

-----------------------------------------------------------------------------
(* The GHZ example of the crate documentation (lib.rs): three gates are      *)
(* added to a 3-qubit simulator, then init_state(0), run(), measure(rng).    *)

GHZGates ==
    << [gate |-> Hadamard, qubits |-> <<0>>],
       [gate |-> cnot, qubits |-> <<0, 1>>],
       [gate |-> cnot, qubits |-> <<0, 2>>] >>

\* rng.gen::<f64>(): the multiples of 2^-MaxProbeBits in [0, 1), and
\* sqrt2 - 1, 2 - sqrt2, sqrt2 / 2
FineProbes ==
    {RReduce(<<k, 0, MaxProbeBits>>) : k \in 0..(2 ^ MaxProbeBits - 1)}
        \cup {<<-1, 1, 0>>, <<2, -1, 0>>, <<0, 1, 1>>}

InitGHZ ==
    /\ n_qubits = 3
    /\ circuit = QuantumSimulator_new(3).circuit
    /\ state = QuantumSimulator_new(3).state
    /\ last = [op |-> "new"]
    /\ runs = 0
    /\ aborted = FALSE
    /\ HarnessIdle

\* sim.add_gate(..)?, the three calls in turn
GHZAddGate ==
    /\ last.op \in {"new", "add_gate"}
    /\ ~aborted
    /\ Len(circuit.gates) < Len(GHZGates)
    /\ LET g == GHZGates[Len(circuit.gates) + 1]
           r == QuantumSimulator_add_gate(circuit, g.gate, g.qubits)
       IN  /\ r.res = "Ok"
           /\ circuit' = r.circuit
           /\ last' = [op |-> "add_gate", res |-> r.res]
    /\ UNCHANGED <<n_qubits, state, runs, aborted, harnessVars>>

\* sim.init_state(0)
GHZInitState ==
    /\ last.op = "add_gate"
    /\ Len(circuit.gates) = Len(GHZGates)
    /\ InitState(0)

\* sim.run()
GHZRun ==
    /\ last.op = "init_state"
    /\ Run

\* sim.measure(&mut rng)
GHZMeasure(probe) ==
    /\ last.op = "run"
    /\ Measure(probe)

NextGHZ ==
    \/ GHZAddGate
    \/ GHZInitState
    \/ GHZRun
    \/ \E probe \in FineProbes : GHZMeasure(probe)

SpecGHZ == InitGHZ /\ [][NextGHZ]_vars

-----------------------------------------------------------------------------
(* The QFT builder (qft.rs): the circuit is built, and for small n applied   *)
(* to a basis state, directly or wrapped into a gate.                        *)

Builds == {"debug", "release"}

\* Mutant of the shift: 1 << (amount - 1)
shl_i32_one_less(amount, build) == [sign |-> 1, log2 |-> amount - 1]

\* 1 << amount on i32, as sign and exponent of the value (+-2^log2): the top
\* bit is the sign bit; an amount of 32 or more panics with overflow checks
\* (debug) and is taken modulo 32 without them (release)
shl_i32(amount, build) ==
    IF amount >= I32Bits
    THEN IF build = "debug" THEN Panic
         ELSE [sign |-> IF amount % I32Bits = I32Bits - 1 THEN -1 ELSE 1,
               log2 |-> amount % I32Bits]
    ELSE [sign |-> IF amount = I32Bits - 1 THEN -1 ELSE 1, log2 |-> amount]

\* The calls of one pass of the outer loop: Hadamard on [i], then for j in 0..i
\* the controlled phase on [i, j]; a gate of Panic stands for the panic of the
\* shift
qft_pass(i, build) ==
    <<[gate |-> Hadamard, qubits |-> <<i>>]>> \o
    [jj \in 1..i |->
        LET j == jj - 1
            power == shl_i32(i - j + 1, build)
        IN  [gate |-> IF power = Panic THEN Panic
                      ELSE Controlled(phase_fraction(power.sign, power.log2)),
             qubits |-> <<i, j>>]]

\* for i in (0..n_qubits).rev()
RECURSIVE qft_passes(_, _)
qft_passes(i, build) ==
    IF i < 0 THEN <<>> ELSE qft_pass(i, build) \o qft_passes(i - 1, build)

\* for i in 0..n_qubits / 2 { add_gate(Gate::swap(), [i, n_qubits - i - 1]) }
qft_swaps(n) ==
    [ii \in 1..(n \div 2) |->
        [gate |-> Swap, qubits |-> <<ii - 1, n - (ii - 1) - 1>>]]

\* circuit.add_gate(..)? for each call in turn: the calls before the first
\* one that fails (or panics) have pushed their MappedGate
add_gates(c, calls) ==
    LET made == [k \in 1..Len(calls) |->
                    IF calls[k].gate = Panic THEN [res |-> "Abort", mg |-> <<>>]
                    ELSE MappedGate_new(calls[k].gate, calls[k].qubits, c.qubit_count)]
        failed == {k \in 1..Len(calls) : made[k].res # "Ok"}
        stop == IF failed = {} THEN Len(calls) + 1
                ELSE CHOOSE k \in failed : \A l \in failed : k <= l
    IN  [res |-> IF failed = {} THEN "Ok" ELSE made[stop].res,
         circuit |-> [c EXCEPT !.gates = @ \o [k \in 1..(stop - 1) |-> made[k].mg]]]

build_qft_circuit_custom(n, do_swaps, build) ==
    add_gates(Circuit_new(n),
              qft_passes(n - 1, build)
                  \o (IF do_swaps THEN qft_swaps(n) ELSE <<>>))

build_qft_circuit(n, build) == build_qft_circuit_custom(n, TRUE, build)

\* The largest n for which the circuit is applied to a state: its phases are
\* eighth roots of unity
MaxQFTApply == ExactPhaseLog2

\* The n of the harness: the qubit masks of 31 qubits fit the integers of TLC
QFTQubits == 1..(MAX_QUBITS - 1)

InitQFT ==
    /\ SimIdle
    /\ pc = "start"
    /\ inp \in [n : QFTQubits, do_swaps : BOOLEAN, build : Builds]
    /\ out = <<>>

\* build_qft_circuit_custom(n, do_swaps)
CallBuildQFT ==
    /\ pc = "start"
    /\ out' = build_qft_circuit_custom(inp.n, inp.do_swaps, inp.build)
    /\ pc' = "built"
    /\ UNCHANGED <<inp, simVars>>

\* circuit.apply(&mut state) on the basis state x, the circuit being the one
\* built or Circuit::from_gate(built.into_gate(), [0..n))
CallApplyQFT(x, via) ==
    /\ pc = "built"
    /\ out.res = "Ok"
    /\ inp.n <= MaxQFTApply
    /\ x < Shl1(inp.n)
    /\ LET s == init_state(zero_state(inp.n), x)
           c == IF via = "circuit" THEN out.circuit
                ELSE Circuit_from_gate(into_gate(out.circuit),
                                       [q \in 1..inp.n |-> q - 1]).circuit
       IN  out' = [res |-> out.res, circuit |-> out.circuit, x |-> x, via |-> via,
                   applied |-> Circuit_apply(c, s)]
    /\ pc' = "applied"
    /\ UNCHANGED <<inp, simVars>>

NextQFT ==
    \/ CallBuildQFT
    \/ \E x \in 0..(2 ^ MaxQFTApply - 1), via \in {"circuit", "into_gate"} :
           CallApplyQFT(x, via)

SpecQFT == InitQFT /\ [][NextQFT]_vars

-----------------------------------------------------------------------------
(* The classical helpers (classical.rs) on words of WordBits bits: u64 is    *)
(* 0..2^WordBits - 1, i64 is -2^(WordBits-1)..2^(WordBits-1) - 1, and u128,  *)
(* i128 have twice the bits.                                                 *)

WordMod == 2 ^ WordBits
WideMod == 2 ^ (2 * WordBits)
Unsigned == 0..(WordMod - 1)
SignedMin == -(WordMod \div 2)
SignedMax == WordMod \div 2 - 1
Signed == SignedMin..SignedMax

\* Option<u64>, and the panic of an arithmetic operation
SomeOf(v) == [is |-> "Some", value |-> v]
Absent == [is |-> "None"]
Panicked == [is |-> "Panic"]

\* `as u64` and `as i64`: the value modulo 2^WordBits in the range of the type
as_unsigned(v) == v % WordMod
as_signed(v) == LET u == v % WordMod IN IF u > SignedMax THEN u - WordMod ELSE u

\* u128 multiplication and remainder
mul_wide(x, y) == (x * y) % WideMod

\* (result as u128 * base as u128 % m as u128) as u64
mul_mod(result, base, m) == as_unsigned(mul_wide(result, base) % m)

\* while exponent > 0 { .. }
RECURSIVE powmod_loop(_, _, _, _)
powmod_loop(result, base, exponent, m) ==
    IF exponent = 0 THEN result
    ELSE powmod_loop(IF exponent % 2 # 0 THEN mul_mod(result, base, m) ELSE result,
                     mul_mod(base, base, m),
                     exponent \div 2, m)

powmod(a, b, m) ==
    IF m = 0 THEN Absent
    ELSE SomeOf(powmod_loop(1, a % m, b, m))

\* i64::unsigned_abs
unsigned_abs(a) == IF a < 0 THEN -a ELSE a

\* while b != 0 { [a, b] = [b, a % b] }, on u64
RECURSIVE gcd_loop(_, _)
gcd_loop(a, b) == IF b = 0 THEN a ELSE gcd_loop(b, a % b)

\* gcd(a, b) on i64: the magnitude is cast back with `as i64`
gcd(a, b) == as_signed(gcd_loop(unsigned_abs(a), unsigned_abs(b)))

\* Signed division and remainder of Rust: the quotient is truncated towards 0
trunc_div(a, b) ==
    LET q == unsigned_abs(a) \div unsigned_abs(b)
    IN  IF (a < 0) # (b < 0) THEN -q ELSE q

trunc_rem(a, b) == a - b * trunc_div(a, b)

\* a % b on i64 panics for i64::MIN % -1 in every build
rem_overflows(a, b) == a = SignedMin /\ b = -1

\* An i64 result v of + or - that is out of range panics with overflow
\* checks (debug) and wraps without them (release)
add_overflows(v, build) == v \notin Signed /\ build = "debug"

\* extended_gcd(a, b) on i64: the triple (g, x, y), or Panicked
RECURSIVE extended_gcd(_, _, _)
extended_gcd(a, b, build) ==
    IF b = 0
    THEN LET abs_a == IF a = SignedMin THEN SignedMax ELSE unsigned_abs(a)
         IN  [is |-> "Ok", g |-> abs_a, x |-> IF a >= 0 THEN 1 ELSE -1, y |-> 0]
    ELSE IF rem_overflows(a, b) THEN Panicked
    ELSE LET r == extended_gcd(b, trunc_rem(a, b), build)
         IN  IF r.is = "Panic" THEN Panicked
             ELSE LET y == r.x - as_signed(trunc_div(a, b) * r.y)
                  IN  IF add_overflows(y, build) THEN Panicked
                      ELSE [is |-> "Ok", g |-> r.g, x |-> r.y, y |-> as_signed(y)]

\* ((x % m as i64 + m as i64) % m as i64) as u64, m being m as i64
normalize(x, m, build) ==
    IF rem_overflows(x, m) THEN Panicked
    ELSE LET s == trunc_rem(x, m) + m
         IN  IF add_overflows(s, build) \/ rem_overflows(as_signed(s), m) THEN Panicked
             ELSE SomeOf(as_unsigned(trunc_rem(as_signed(s), m)))

invmod(a, m, build) ==
    IF a = 0 \/ m = 0 THEN Absent
    ELSE LET r == extended_gcd(as_signed(a), as_signed(m), build)
         IN  IF r.is = "Panic" THEN Panicked
             ELSE IF r.g # 1 THEN Absent
             ELSE normalize(r.x, as_signed(m), build)

InitClassical ==
    /\ SimIdle
    /\ pc = "start"
    /\ inp \in [fn : {"powmod"}, a : Unsigned, b : Unsigned, m : Unsigned]
          \cup [fn : {"gcd"}, a : Signed, b : Signed]
          \cup [fn : {"invmod"}, a : Unsigned, m : Unsigned, build : Builds]
    /\ out = <<>>

CallPowmod ==
    /\ pc = "start"
    /\ inp.fn = "powmod"
    /\ out' = powmod(inp.a, inp.b, inp.m)
    /\ pc' = "returned"
    /\ UNCHANGED <<inp, simVars>>

CallGcd ==
    /\ pc = "start"
    /\ inp.fn = "gcd"
    /\ out' = gcd(inp.a, inp.b)
    /\ pc' = "returned"
    /\ UNCHANGED <<inp, simVars>>

CallInvmod ==
    /\ pc = "start"
    /\ inp.fn = "invmod"
    /\ out' = invmod(inp.a, inp.m, inp.build)
    /\ pc' = "returned"
    /\ UNCHANGED <<inp, simVars>>

NextClassical ==
    \/ CallPowmod
    \/ CallGcd
    \/ CallInvmod

SpecClassical == InitClassical /\ [][NextClassical]_vars

-----------------------------------------------------------------------------
(* The constructors called with any u8: whether an object is produced        *)

\* Circuit::new(qubit_count): the assert, then the circuit
Circuit_new_call(qubit_count) ==
    IF ~(qubit_count <= MAX_QUBITS) THEN [res |-> "Abort"]
    ELSE [res |-> "Ok", qubit_count |-> Circuit_new(qubit_count).qubit_count]

\* QuantumSimulator::new(n_qubits): the assert n_qubits > 0, then 1 << n_qubits
\* on usize (from 64 on a panic with overflow checks, the amount modulo 64
\* without them), the allocation of that many Complex64 (a panic once the
\* bytes exceed isize::MAX), then Circuit::new(n_qubits)
QuantumSimulator_new_call(n, build) ==
    IF ~(n > 0) THEN [res |-> "Abort"]
    ELSE IF n >= UsizeBits /\ build = "debug" THEN [res |-> "Abort"]
    ELSE IF (n % UsizeBits) + Complex64BytesLog2 >= UsizeBits - 1 THEN [res |-> "Abort"]
    ELSE Circuit_new_call(n)

InitConstruct ==
    /\ SimIdle
    /\ pc = "start"
    /\ inp \in [ctor : {"Circuit", "Simulator"}, n : 0..U8Max, build : Builds]
    /\ out = <<>>

CallCircuitNew ==
    /\ pc = "start"
    /\ inp.ctor = "Circuit"
    /\ out' = Circuit_new_call(inp.n)
    /\ pc' = "returned"
    /\ UNCHANGED <<inp, simVars>>

CallSimulatorNew ==
    /\ pc = "start"
    /\ inp.ctor = "Simulator"
    /\ out' = QuantumSimulator_new_call(inp.n, inp.build)
    /\ pc' = "returned"
    /\ UNCHANGED <<inp, simVars>>

NextConstruct ==
    \/ CallCircuitNew
    \/ CallSimulatorNew

SpecConstruct == InitConstruct /\ [][NextConstruct]_vars

-----------------------------------------------------------------------------
(* Gates built from circuits: a gate is made (a plain gate, a circuit from   *)
(* Circuit::new(m) with one gate added, or a circuit from from_gate, turned  *)
(* into a gate and possibly controlled), added to a simulator, and run.      *)

NestedGates == {Hadamard, Not, Swap, phase_fraction8(1), cnot}

NestedLists == SeqsUpTo(0..MaxQubits, MaxLen)

NestedInputs ==
    {i \in [via : {"plain", "new", "from_gate"}, m : 0..MaxQubits, gate : NestedGates,
            qubits : NestedLists, ctl : 0..1, outer : NestedLists] :
        /\ i.via # "new" => i.m = 0
        /\ i.via = "plain" => i.qubits = <<>>}

InitNested ==
    /\ n_qubits \in 1..MaxQubits
    /\ circuit = QuantumSimulator_new(n_qubits).circuit
    /\ state = QuantumSimulator_new(n_qubits).state
    /\ last = [op |-> "new"]
    /\ runs = 0
    /\ aborted = FALSE
    /\ pc = "start"
    /\ inp \in NestedInputs
    /\ out = <<>>

\* gate, Circuit::new(m).add_gate(gate, qubits)?.into_gate() or
\* Circuit::from_gate(gate, qubits)?.into_gate(), then multi_control(ctl)
NestedBuild ==
    /\ pc = "start"
    /\ LET r == CASE inp.via = "plain" -> [res |-> "Ok"]
                  [] inp.via = "new" ->
                        Circuit_add_gate(Circuit_new(inp.m), inp.gate, inp.qubits)
                  [] inp.via = "from_gate" -> Circuit_from_gate(inp.gate, inp.qubits)
           g == IF inp.via = "plain" THEN inp.gate ELSE into_gate(r.circuit)
       IN  out' = IF r.res = "Ok"
                  THEN [res |-> "Ok", gate |-> multi_control(g, inp.ctl)]
                  ELSE [res |-> r.res]
    /\ pc' = "built"
    /\ UNCHANGED <<inp, simVars>>

\* sim.add_gate(gate, outer)
NestedAddGate ==
    /\ pc = "built"
    /\ out.res = "Ok"
    /\ LET r == QuantumSimulator_add_gate(circuit, out.gate, inp.outer)
       IN  /\ circuit' = r.circuit
           /\ aborted' = (r.res = "Abort")
           /\ last' = [op |-> "add_gate", res |-> r.res]
           /\ out' = [res |-> r.res, gate |-> out.gate]
    /\ pc' = "added"
    /\ UNCHANGED <<n_qubits, state, runs, inp>>

NestedInitState(one_index) ==
    /\ pc = "added"
    /\ InitStateCall(one_index)
    /\ UNCHANGED harnessVars

NestedRun ==
    /\ pc = "added"
    /\ RunCall
    /\ UNCHANGED harnessVars

NextNested ==
    \/ NestedBuild
    \/ NestedAddGate
    \/ \E one_index \in 0..Shl1(n_qubits) : NestedInitState(one_index)
    \/ NestedRun

SpecNested == InitNested /\ [][NextNested]_vars

-----------------------------------------------------------------------------
(* C1: the result of add_gate on a fresh Circuit::new(n) / Simulator::new(n) *)

\* List position p (from 1) breaks the rule: its index is >= n or repeats an
\* earlier one
Violates(qubits, n, p) ==
    \/ qubits[p] >= n
    \/ \E r \in 1..(p - 1) : qubits[r] = qubits[p]

\* What the claim says add_gate returns
ClaimedResult(qubits, n) ==
    IF \A p \in 1..Len(qubits) : ~Violates(qubits, n, p) THEN "Ok"
    ELSE LET p0 == CHOOSE p \in 1..Len(qubits) :
                       /\ Violates(qubits, n, p)
                       /\ \A r \in 1..(p - 1) : ~Violates(qubits, n, r)
         IN  IF qubits[p0] >= n THEN "IndexOutOfBounds" ELSE "DuplicatedIndex"

AddGateCalled == pc \in {"added", "applied"} /\ inp.via \in {"Circuit", "Simulator"}

\* C1 (as claimed): add_gate on Circuit::new(n) and Simulator::new(n) returns Ok
\* exactly when every index of the list is < n and the indices are pairwise
\* distinct, and otherwise the error of the first list position that breaks
\* this (IndexOutOfBounds for an index >= n, DuplicatedIndex for a repeated
\* index < n); nothing else is returned.  The code aborts instead for a list
\* of 60 or more indices: the state_map is allocated before any index is
\* looked at.
C1_AddGateResult ==
    AddGateCalled => out.res = ClaimedResult(inp.qubits, inp.n)

\* The same for the lists whose state_map can be allocated: there the code
\* returns what the claim says.
C1_AddGateResultAllocatable ==
    (AddGateCalled /\ ~AllocAborts(Len(inp.qubits)))
        => out.res = ClaimedResult(inp.qubits, inp.n)

-----------------------------------------------------------------------------
(* C2: a failed add_gate changes nothing *)

QubitErrors == {"IndexOutOfBounds", "DuplicatedIndex"}

\* C2: whenever add_gate returns IndexOutOfBounds or DuplicatedIndex, the
\* circuit's gate sequence and the simulator's state vector are what they were
\* before the call (so a later run(), a function of the two, is not affected).
C2_FailedAddGateChangesNothing ==
    [][(last'.op = "add_gate" /\ last'.res \in QubitErrors)
           => (circuit' = circuit /\ state' = state)]_vars

\* add_gate has failed on a simulator that holds a gate and a state that a
\* run() has transformed
C2_FailedAfterRun ==
    /\ last.op = "add_gate" /\ last.res = "DuplicatedIndex"
    /\ Len(circuit.gates) >= 1
    /\ runs >= 1
    /\ \E i \in 1..Len(state) : state[i] \notin {CZero, COne}

-----------------------------------------------------------------------------
(* C3: the state_map and qubits_mask that MappedGate::new builds *)

Bit(x, b) == (x \div (2 ^ b)) % 2

\* The highest bit a mask of the harness can hold
TopBit == MaxHQubits

\* x has bits only inside mask
Within(x, mask) == \A b \in 0..TopBit : Bit(x, b) = 1 => Bit(mask, b) = 1

Mapped == pc \in {"added", "applied"} /\ out.res = "Ok"

-----------------------------------------------------------------------------
(* C4: the block iteration of MappedGate::apply *)

\* The number of qubits a gate acts on (spec.md, section 3)
RECURSIVE Arity(_)
Arity(g) ==
    CASE g.kind \in {"Hadamard", "Not", "Phase"} -> 1
      [] g.kind = "Swap" -> 2
      [] g.kind = "Controlled" -> 1 + Arity(g.inner)
      [] g.kind = "Circuit" ->
            IF g.circuit.qubit_count = None THEN -1 ELSE g.circuit.qubit_count[1]

Applied == pc = "applied"

AllBelow(q, n) == \A p \in 1..Len(q) : q[p] < n

\* C4: MappedGate::apply on a state of 2^n amplitudes, for a gate bound to k
\* distinct qubits all < n, makes exactly 2^(n-k) block iterations; outer_index
\* starts at 0 and takes, strictly ascending, exactly the values of [0, 2^n)
\* with zero bits at every position of qubits_mask; the index sets
\* {outer_index | state_map[i]} of the blocks are pairwise disjoint and cover
\* [0, 2^n).  (A gate bound to as many qubits as it acts on does not panic;
\* the iteration is that of every apply that returns.)
C4_BlockIteration ==
    Applied =>
        LET mg == out.circuit.gates[1]
            n == inp.n
            k == Len(inp.qubits)
            blocks == out.applied.blocks
            returned == out.applied.state # Panic
        IN  /\ (Arity(inp.gate) = k /\ AllBelow(inp.qubits, n)) => returned
            /\ (returned /\ AllBelow(inp.qubits, n)) =>
                /\ Len(blocks) = 2 ^ (n - k)
                /\ blocks[1].outer_index = 0
                /\ \A b \in 1..(Len(blocks) - 1) :
                       blocks[b].outer_index < blocks[b + 1].outer_index
                /\ {blocks[b].outer_index : b \in 1..Len(blocks)}
                       = {x \in 0..(2 ^ n - 1) : BitAnd(x, mg.qubits_mask) = 0}
                /\ \A b \in 1..Len(blocks) :
                       /\ Len(blocks[b].indices) = 2 ^ k
                       /\ \A i \in 1..(2 ^ k) :
                              /\ blocks[b].indices[i] >= blocks[b].outer_index
                              /\ Within(blocks[b].indices[i] - blocks[b].outer_index,
                                        mg.qubits_mask)
                /\ \A x \in 0..(2 ^ n - 1) :
                       Cardinality({<<b, i>> \in (1..Len(blocks)) \X (1..(2 ^ k)) :
                                       blocks[b].indices[i] = x}) = 1

\* A one-qubit gate on qubit 1 of 3: four blocks, outer_index 0, 1, 4, 5
C4_FourBlocks ==
    /\ Applied
    /\ out.applied.state # Panic
    /\ inp.n = 3 /\ inp.qubits = <<1>>
    /\ [b \in 1..Len(out.applied.blocks) |-> out.applied.blocks[b].outer_index]
           = <<0, 1, 4, 5>>

-----------------------------------------------------------------------------
(* C5: what a controlled gate does to the full state *)

RECURSIVE StripControls(_)
StripControls(g) == IF g.kind = "Controlled" THEN StripControls(g.inner) ELSE g

\* The inner (uncontrolled) gate bound to the target qubits alone, applied to s
InnerOnTargets(gate, qubits, max_qubits, s) ==
    LET c == count_controlled(gate)
        targets == SubSeq(qubits, c + 1, Len(qubits))
    IN  MappedGate_apply(MappedGate_new(StripControls(gate), targets, max_qubits).mg, s).state

\* The controlled gates applied to at least as many qubits as they have controls
ControlledApplied ==
    /\ Applied
    /\ count_controlled(inp.gate) >= 1
    /\ Len(inp.qubits) >= count_controlled(inp.gate)
    /\ AllBelow(inp.qubits, inp.n)
    /\ out.applied.state # Panic

\* C5: a gate with c >= 1 leading Controlled wrappers bound to
\* [control_1..control_c, target_1..] leaves unchanged every amplitude whose
\* index has a control bit equal to 0, and on the indices whose control bits
\* are all 1 it acts as the inner gate bound to the targets in their order;
\* CNOT([c, t]) exchanges the amplitudes of x and x XOR (1 << t) exactly for
\* the x with bit c set.
C5_ControlledFrame ==
    ControlledApplied =>
        LET c == count_controlled(inp.gate)
            s == out.s
            result == out.applied.state
            inner == InnerOnTargets(inp.gate, inp.qubits, out.circuit.qubit_count, s)
            controls_set(x) == \A p \in 1..c : Bit(x, inp.qubits[p]) = 1
        IN  /\ inner # Panic
            /\ \A x \in 0..(Len(s) - 1) :
                   result[x + 1] = IF controls_set(x) THEN inner[x + 1] ELSE s[x + 1]
            /\ (inp.gate = cnot /\ Len(inp.qubits) = 2) =>
                   \A x \in 0..(Len(s) - 1) :
                       LET t == inp.qubits[2]
                           flipped == IF Bit(x, t) = 1 THEN x - 2 ^ t ELSE x + 2 ^ t
                       IN  result[x + 1] = IF Bit(x, inp.qubits[1]) = 1
                                           THEN s[flipped + 1] ELSE s[x + 1]

\* Toffoli on [2, 0, 1] of three qubits has exchanged the amplitudes of 5 and 7
C5_ToffoliApplied ==
    /\ ControlledApplied
    /\ inp.gate = toffoli /\ inp.qubits = <<2, 0, 1>> /\ inp.n = 3
    /\ out.applied.state[6] = out.s[8] /\ out.applied.state[8] = out.s[6]
    /\ out.s[6] # out.s[8]

-----------------------------------------------------------------------------
(* C6: run() applies the gates in the order they were appended *)

\* g_m applied to (g_(m-1) applied to (... g_1 applied to s))
RECURSIVE Composed(_, _, _)
Composed(gates, m, s) ==
    IF m = 0 THEN s
    ELSE LET before == Composed(gates, m - 1, s)
         IN  IF before = Panic THEN Panic
             ELSE MappedGate_apply(gates[m], before).state

\* C6: after successful add_gate calls g_1..g_m, a run() that returns turns the
\* current state into the result of applying g_1 first, then g_2, ..., g_m
\* last, each once.
C6_RunAppliesInOrder ==
    [][(runs' = runs + 1 /\ ~aborted')
           => state' = Composed(circuit.gates, Len(circuit.gates), state)]_vars

\* A run() has returned on a circuit of two gates whose order matters for the
\* state it started from
C6_OrderMatters ==
    /\ last.op = "run" /\ ~aborted
    /\ Len(circuit.gates) = 2
    /\ runs = 1
    /\ \E i \in 0..(Len(state) - 1) :
           LET b == init_state(state, i)
           IN  /\ state = Composed(circuit.gates, 2, b)
               /\ state # Composed(Reverse(circuit.gates), 2, b)

-----------------------------------------------------------------------------
(* C7: a circuit followed by its inverse *)

\* C7: for every circuit C built from Hadamard, Not, Phase, Swap, Controlled
\* and nested Circuit gates and every state s that C can be applied to,
\* applying C and then C.inverse() gives back every amplitude of s.
C7_RoundTrip ==
    pc = "back" => out.back = out.s

\* A Hadamard and then a controlled phase e^(3i*pi/4) on the same qubit of
\* three were applied and undone; the circuit changed the state
C7_HadamardThenPhaseUndone ==
    /\ pc = "back"
    /\ inp.n = 3
    /\ Len(out.circuit.gates) = 2
    /\ out.circuit.gates[1].gate = Hadamard
    /\ out.circuit.gates[2].gate = Controlled(phase_fraction8(3))
    /\ out.circuit.gates[2].qubits_mask = 3
    /\ out.circuit.gates[1].qubits_mask = 1
    /\ out.applied # out.s
    /\ out.back = out.s

-----------------------------------------------------------------------------
(* C8: the circuit that Circuit::inverse returns *)

RECURSIVE IsInverseGate(_, _)
RECURSIVE IsInverseCircuit(_, _)

\* gi is g with Hadamard, Not and Swap kept, a phase p replaced by the
\* conjugate of p, and the same inside Controlled and Circuit
IsInverseGate(gi, g) ==
    /\ gi.kind = g.kind
    /\ CASE g.kind \in {"Hadamard", "Not", "Swap"} -> gi = g
         [] g.kind = "Phase" ->
                /\ DOMAIN gi = {"kind", "phase"}
                /\ gi.phase[5] = g.phase[5]
                /\ gi.phase[1] = g.phase[1]
                /\ gi.phase[2] = -g.phase[4]
                /\ gi.phase[3] = -g.phase[3]
                /\ gi.phase[4] = -g.phase[2]
         [] g.kind = "Controlled" ->
                DOMAIN gi = {"kind", "inner"} /\ IsInverseGate(gi.inner, g.inner)
         [] g.kind = "Circuit" ->
                DOMAIN gi = {"kind", "circuit"} /\ IsInverseCircuit(gi.circuit, g.circuit)

\* ci has the qubit_count and the number of gates of c, and its gate j is the
\* gate m-1-j of c with the gate inverted and state_map, qubits_mask kept
IsInverseCircuit(ci, c) ==
    /\ ci.qubit_count = c.qubit_count
    /\ Len(ci.gates) = Len(c.gates)
    /\ \A j \in 1..Len(c.gates) :
           LET src == c.gates[Len(c.gates) + 1 - j]
           IN  /\ ci.gates[j].state_map = src.state_map
               /\ ci.gates[j].qubits_mask = src.qubits_mask
               /\ IsInverseGate(ci.gates[j].gate, src.gate)

\* C8: Circuit::inverse() leaves the source circuit as it was and returns a
\* circuit with the same qubit_count and number of gates, whose gate j is the
\* source's gate m-1-j with the gate replaced by its inverse (Hadamard, Not,
\* Swap unchanged; Phase(p) -> Phase(conj p); recursively through Controlled
\* and Circuit) and state_map, qubits_mask kept.
C8_InverseStructure ==
    [][last'.op = "inverse"
           => (circuit' = circuit /\ IsInverseCircuit(last'.inv, circuit))]_vars

\* inverse() was called on a circuit of two different gates, one of them with
\* a phase that is not real
C8_InverseOfTwoGates ==
    /\ last.op = "inverse"
    /\ Len(circuit.gates) = 2
    /\ circuit.gates[1] # circuit.gates[2]
    /\ last.inv # circuit
    /\ \E j \in 1..2 : circuit.gates[j].gate = Controlled(phase_fraction8(1))
    /\ \E j \in 1..2 : circuit.gates[j].gate = into_gate(SubCircuit)

-----------------------------------------------------------------------------
(* C9: the squared norm of the state *)

RECURSIVE SumNormSqr(_, _)
SumNormSqr(st, m) == IF m = 0 THEN RZero ELSE RAdd(SumNormSqr(st, m - 1), norm_sqr(st[m]))

NormSqr(st) == SumNormSqr(st, Len(st))

Initialised == state # zero_state(n_qubits)

\* C9: once init_state has set a basis state, the squared magnitudes of the
\* state vector sum to 1 after every gate application: in every state the
\* simulator reaches, and after each gate of the run() that may follow.
C9_NormIsOne ==
    Initialised =>
        \A m \in 0..Len(circuit.gates) :
            LET s == Composed(circuit.gates, m, state)
            IN  s # Panic => NormSqr(s) = ROne

\* After two runs the state has amplitudes of three different magnitudes
C9_UnevenSuperposition ==
    /\ last.op = "run" /\ ~aborted /\ runs = 2
    /\ Cardinality({norm_sqr(state[i]) : i \in 1..Len(state)}) >= 3
    /\ NormSqr(state) = ROne

-----------------------------------------------------------------------------
(* C10: the outcome of measure *)

\* S_i, the sum of |state[j]|^2 over j <= i
CumulativeProbability(st, i) == SumNormSqr(st, i + 1)

Exceeds(st, probe, i) == RSign(RSub(CumulativeProbability(st, i), probe)) = 1

ClaimedOutcome(st, probe) ==
    IF \E i \in 0..(Len(st) - 1) : Exceeds(st, probe, i)
    THEN CHOOSE i \in 0..(Len(st) - 1) :
             /\ Exceeds(st, probe, i)
             /\ \A j \in 0..(i - 1) : ~Exceeds(st, probe, j)
    ELSE Len(st) - 1

\* C10: for every state vector and every probe p in [0, 1), measure returns
\* the smallest index i whose cumulative probability S_i is > p, and 2^n - 1
\* when no S_i exceeds p; whenever some S_i > p, the index returned has a
\* probability |state[i]|^2 > 0.
C10_MeasureOutcome ==
    [][last'.op = "measure" =>
          /\ last'.outcome = ClaimedOutcome(state, last'.probe)
          /\ (\E i \in 0..(Len(state) - 1) : Exceeds(state, last'.probe, i))
                 => RSign(norm_sqr(state[last'.outcome + 1])) = 1]_vars

\* measure has returned an index that is neither the first nor the last, for
\* a probe that a cumulative probability equals
C10_InnerOutcome ==
    /\ last.op = "measure"
    /\ last.probe = <<1, 0, 1>>
    /\ last.outcome = 2
    /\ n_qubits = 2

-----------------------------------------------------------------------------
(* C11: the state after measure *)

\* C11: after every measure call, from any prior state, the state vector has
\* exactly one amplitude equal to 1+0i, at the returned outcome index, and
\* every other amplitude equal to 0; the circuit is unchanged.
C11_MeasureCollapses ==
    [][last'.op = "measure" =>
          /\ last'.outcome \in 0..(Len(state) - 1)
          /\ Len(state') = Len(state)
          /\ \A i \in 0..(Len(state) - 1) :
                 state'[i + 1] = IF i = last'.outcome THEN COne ELSE CZero
          /\ circuit' = circuit]_vars

\* measure has collapsed a state with four non-zero amplitudes to index 1
C11_CollapsedFromSuperposition ==
    /\ last.op = "measure"
    /\ last.probe = <<1, 0, 2>>
    /\ last.outcome = 1
    /\ n_qubits = 2
    /\ Len(circuit.gates) = 2
    /\ state = <<CZero, COne, CZero, CZero>>

-----------------------------------------------------------------------------
(* C12: the GHZ state of three qubits *)

GHZState == <<FRAC_1_SQRT_2, CZero, CZero, CZero, CZero, CZero, CZero, FRAC_1_SQRT_2>>

\* C12: on a 3-qubit simulator with Hadamard [0], CNOT [0, 1], CNOT [0, 2],
\* init_state(0) and run() give the amplitude 1/sqrt2 at the indices 0 and 7
\* and 0 at the indices 1..6, and the measure that follows returns 0 or 7 for
\* every probe.
C12_GHZ ==
    /\ last.op = "run" => (~aborted /\ state = GHZState)
    /\ last.op = "measure" => last.outcome \in {0, 7}

\* measure has returned 7 for the probe 1/2, which the cumulative probability
\* of index 0 equals and does not exceed
C12_MeasuredSeven ==
    /\ last.op = "measure"
    /\ Len(circuit.gates) = 3
    /\ last.probe = <<1, 0, 1>>
    /\ last.outcome = 7

-----------------------------------------------------------------------------
(* C13: the gate list of build_qft_circuit_custom *)

RECURSIVE ClaimedPasses(_)
ClaimedPasses(i) ==
    IF i < 0 THEN <<>>
    ELSE <<[gate |-> Hadamard, qubits |-> <<i>>]>>
         \o [jj \in 1..i |-> [gate |-> Controlled(phase_fraction(1, i - (jj - 1) + 1)),
                              qubits |-> <<i, jj - 1>>]]
         \o ClaimedPasses(i - 1)

ClaimedSwaps(n) ==
    [ii \in 1..(n \div 2) |-> [gate |-> Swap, qubits |-> <<ii - 1, n - 1 - (ii - 1)>>]]

\* The gate list of the claim, each gate bound to its qubits
ClaimedQFT(n, do_swaps) ==
    LET calls == ClaimedPasses(n - 1) \o (IF do_swaps THEN ClaimedSwaps(n) ELSE <<>>)
    IN  [k \in 1..Len(calls) |-> MappedGate_new(calls[k].gate, calls[k].qubits, Some(n)).mg]

QFTBuilt == pc \in {"built", "applied"}

\* C13 (as claimed): for every n in 1..32 and both values of do_swaps,
\* build_qft_circuit_custom returns Ok with, for i from n-1 down to 0,
\* Hadamard on [i] and then for j = 0..i-1 Controlled(Phase) on [i, j] of
\* phase fraction +1/2^(i-j+1), and then, iff do_swaps, Swap on [i, n-1-i] for
\* i in [0, n/2); the power is never negative, wrapped or overflowing.  The
\* code computes the power as 1i32 << (i - j + 1): it is -2^31 for i - j = 30
\* and overflows for i - j = 31, so the claim fails for n = 31 (and n = 32).
C13_QFTGateList ==
    QFTBuilt =>
        /\ out.res = "Ok"
        /\ out.circuit.qubit_count = Some(inp.n)
        /\ out.circuit.gates = ClaimedQFT(inp.n, inp.do_swaps)

\* The same for the n whose powers fit an i32: there the code builds the
\* gate list of the claim.
C13_QFTGateListBelow31 ==
    (QFTBuilt /\ inp.n + 1 < I32Bits) =>
        /\ out.res = "Ok"
        /\ out.circuit.qubit_count = Some(inp.n)
        /\ out.circuit.gates = ClaimedQFT(inp.n, inp.do_swaps)

-----------------------------------------------------------------------------
(* C14: what the QFT circuit does to a basis state *)

\* (1/sqrt2)^n
RECURSIVE InvSqrtPow(_)
InvSqrtPow(n) == IF n = 0 THEN COne ELSE CMul(FRAC_1_SQRT_2, InvSqrtPow(n - 1))

\* (1/sqrt(2^n)) e^(2 pi i x y / 2^n), for n <= 3
QFTAmplitude(n, x, y) == CMul(InvSqrtPow(n), OmegaPow(((8 \div 2 ^ n) * x * y) % 8))

\* C14: the circuit of build_qft_circuit(n), applied to the basis state |x>
\* for n <= 3 and every x, gives (1/sqrt(2^n)) e^(2 pi i x y / 2^n) at every
\* index y, so every outcome has the probability 1/2^n; the same when the
\* circuit is wrapped with into_gate and bound to the qubits [0..n).
C14_QFTOfBasisState ==
    (pc = "applied" /\ inp.do_swaps) =>
        /\ out.applied # Panic
        /\ Len(out.applied) = 2 ^ inp.n
        /\ \A y \in 0..(2 ^ inp.n - 1) :
               /\ out.applied[y + 1] = QFTAmplitude(inp.n, out.x, y)
               /\ norm_sqr(out.applied[y + 1]) = RReduce(<<1, 0, inp.n>>)

\* The QFT of |001> on three qubits, wrapped into a gate: the amplitude at 1
\* is (1/sqrt8) e^(2 pi i / 8) and the one at 4 is -1/sqrt8
C14_QFTOfOne ==
    /\ pc = "applied"
    /\ inp.n = 3 /\ inp.do_swaps
    /\ out.x = 1 /\ out.via = "into_gate"
    /\ out.applied[2] = CMul(InvSqrtPow(3), OmegaPow(1))
    /\ out.applied[5] = CNeg(InvSqrtPow(3))

-----------------------------------------------------------------------------
(* C15: powmod *)

\* (a^b) mod m, by its definition
RECURSIVE PowerMod(_, _, _)
PowerMod(a, b, m) == IF b = 0 THEN 1 % m ELSE ((a % m) * PowerMod(a, b - 1, m)) % m

PowmodReturned == pc = "returned" /\ inp.fn = "powmod"

\* C15 (as claimed): powmod(a, b, m) returns absent exactly when m = 0, and
\* for every a, b and m >= 1 the value (a^b) mod m, which lies in [0, m),
\* b = 0 and m = 1 included, with no overflow in between.  The code returns 1
\* for b = 0 whatever m is, so powmod(a, 0, 1) is 1 and not 0.
C15_Powmod ==
    PowmodReturned =>
        /\ out.is = "None" <=> inp.m = 0
        /\ inp.m >= 1 =>
            /\ out.is = "Some"
            /\ out.value = PowerMod(inp.a, inp.b, inp.m)
            /\ out.value \in 0..(inp.m - 1)

\* The same without the exponent 0 modulo 1: there the code returns the
\* value of the claim.
C15_PowmodExceptZeroModOne ==
    (PowmodReturned /\ ~(inp.b = 0 /\ inp.m = 1)) =>
        /\ out.is = "None" <=> inp.m = 0
        /\ inp.m >= 1 =>
            /\ out.is = "Some"
            /\ out.value = PowerMod(inp.a, inp.b, inp.m)
            /\ out.value \in 0..(inp.m - 1)

-----------------------------------------------------------------------------
(* C16: gcd *)

Divides(d, v) == \E k \in 0..v : k * d = v

\* The greatest common divisor of two magnitudes, 0 for 0 and 0
GreatestCommonDivisor(u, v) ==
    IF u = 0 /\ v = 0 THEN 0
    ELSE CHOOSE d \in 1..(IF u > v THEN u ELSE v) :
             /\ Divides(d, u) /\ Divides(d, v)
             /\ \A e \in 1..(IF u > v THEN u ELSE v) :
                    (Divides(e, u) /\ Divides(e, v)) => e <= d

GcdReturned == pc = "returned" /\ inp.fn = "gcd"

\* C16 (as claimed): for all signed inputs a, b, the most negative value
\* included, gcd(a, b) is the non-negative greatest common divisor of |a| and
\* |b|: |a| when b = 0, 0 only when a = b = 0, never negative.  The code
\* casts the magnitude back to i64, so a result of 2^63 (gcd(i64::MIN, 0),
\* gcd(i64::MIN, i64::MIN), gcd(0, i64::MIN)) comes out as i64::MIN.
C16_Gcd ==
    GcdReturned =>
        /\ out >= 0
        /\ out = GreatestCommonDivisor(unsigned_abs(inp.a), unsigned_abs(inp.b))
        /\ inp.b = 0 => out = unsigned_abs(inp.a)
        /\ out = 0 <=> (inp.a = 0 /\ inp.b = 0)

\* The same for the inputs whose greatest common divisor fits an i64: there
\* the code returns it.
C16_GcdRepresentable ==
    (GcdReturned
        /\ GreatestCommonDivisor(unsigned_abs(inp.a), unsigned_abs(inp.b)) <= SignedMax) =>
        /\ out >= 0
        /\ out = GreatestCommonDivisor(unsigned_abs(inp.a), unsigned_abs(inp.b))
        /\ inp.b = 0 => out = unsigned_abs(inp.a)
        /\ out = 0 <=> (inp.a = 0 /\ inp.b = 0)

-----------------------------------------------------------------------------
(* C17: invmod *)

InvmodReturned == pc = "returned" /\ inp.fn = "invmod"

NoInverse(a, m) == a = 0 \/ m = 0 \/ GreatestCommonDivisor(a, m) # 1

IsInverse(a, x, m) == x \in 0..(m - 1) /\ (a * x) % m = 1 % m

\* C17 (as claimed): for all unsigned a and m, invmod(a, m) returns absent
\* exactly when a = 0, m = 0 or gcd(a, m) # 1, and otherwise an x with
\* 0 <= x < m and (a * x) mod m = 1 mod m, also for operands with the top bit
\* set.  The code casts a and m to i64: an operand with the top bit set
\* becomes negative and the result can be a value that is not an inverse;
\* and x % m + m overflows i64 for m above a quarter of the unsigned range.
C17_Invmod ==
    InvmodReturned =>
        /\ out.is = "None" <=> NoInverse(inp.a, inp.m)
        /\ ~NoInverse(inp.a, inp.m) =>
               (out.is = "Some" /\ IsInverse(inp.a, out.value, inp.m))

\* The same for a below half and m up to a quarter of the unsigned range:
\* there the code returns what the claim says.
C17_InvmodSmallOperands ==
    (InvmodReturned /\ inp.a <= SignedMax /\ inp.m <= WordMod \div 4) =>
        /\ out.is = "None" <=> NoInverse(inp.a, inp.m)
        /\ ~NoInverse(inp.a, inp.m) =>
               (out.is = "Some" /\ IsInverse(inp.a, out.value, inp.m))

-----------------------------------------------------------------------------
(* C18: the qubit counts the constructors accept *)

\* C18 (as claimed): Circuit::new(n) and Simulator::new(n) succeed for every
\* n with 1 <= n <= 32 and abort for every other n, n = 0 included, for both
\* constructors.  Circuit::new asserts only qubit_count <= 32: Circuit::new(0)
\* returns a circuit.
C18_ConstructorRange ==
    pc = "returned" => (out.res = "Ok" <=> inp.n \in 1..MAX_QUBITS)

\* The same for Simulator::new with every n, and for Circuit::new with every
\* n but 0: there the code does what the claim says.
C18_ConstructorRangeExceptCircuitZero ==
    (pc = "returned" /\ ~(inp.ctor = "Circuit" /\ inp.n = 0))
        => (out.res = "Ok" <=> inp.n \in 1..MAX_QUBITS)

-----------------------------------------------------------------------------
(* C19: init_state(i) and run() forget what came before *)

\* The basis state |i> of n qubits
Basis(n, i) == [k \in 1..(2 ^ n) |-> IF k = i + 1 THEN COne ELSE CZero]

\* C19: for the gates appended so far, init_state(i) followed by run() leaves
\* the state that the gates make of |i>, whatever calls of init_state, run and
\* measure came before and whether the gates were appended before or after
\* the init_state: the result depends on i and the gate list alone.
C19_RunAfterInitState ==
    [][(pc = "trial" /\ pc' = "ran")
           => state' = Composed(circuit.gates, Len(circuit.gates),
                                Basis(n_qubits, out.one_index))]_vars

\* A trial has run two gates on |1>; the init_state had replaced a state in
\* superposition, and a gate was appended after it
C19_TrialAfterSuperposition ==
    /\ pc = "ran"
    /\ out.one_index = 1
    /\ Len(circuit.gates) = 2
    /\ \E k \in 1..Len(out.replaced) : out.replaced[k] \notin {CZero, COne}
    /\ out.gates_then = 1
    /\ state # MappedGate_apply(circuit.gates[1], Basis(n_qubits, 1)).state
    /\ state # Basis(n_qubits, 1)

-----------------------------------------------------------------------------
(* C20: the circuit is append-only *)

\* C20: across every call of add_gate, init_state, run, measure, inverse and
\* state, the number of gates never decreases: it grows by exactly one on a
\* successful add_gate and by zero otherwise, and every MappedGate already in
\* the circuit keeps its gate, state_map, qubits_mask and position.
C20_AppendOnly ==
    [][/\ Len(circuit'.gates) = Len(circuit.gates)
              + (IF last'.op = "add_gate" /\ last'.res = "Ok" THEN 1 ELSE 0)
       /\ \A k \in 1..Len(circuit.gates) : circuit'.gates[k] = circuit.gates[k]
       /\ circuit'.qubit_count = circuit.qubit_count]_vars

\* A second, different gate was appended after the first one had been run
C20_SecondGateAppended ==
    /\ last.op = "add_gate" /\ last.res = "Ok"
    /\ Len(circuit.gates) = 2
    /\ circuit.gates[1] # circuit.gates[2]
    /\ runs >= 1
    /\ state # zero_state(n_qubits)

-----------------------------------------------------------------------------
(* C21: Swap bound to a number of qubits other than 2 *)

SwapApplied == Applied /\ inp.gate = Swap

\* C21 (as claimed): when Swap is the sole gate of a MappedGate, binding it to
\* any number of qubits other than 2 (1, or 3 and more) is rejected or aborts;
\* local indices 1 and 2 of a buffer of another size are never swapped
\* silently.  Gate::apply only requires 3 amplitudes and MappedGate::new does
\* not compare the list with the gate: Swap on [0, 1, 2] is applied.
C21_SwapArity ==
    (SwapApplied /\ Len(inp.qubits) # 2) => out.applied.state = Panic

\* Swap bound to fewer than 2 qubits of a circuit with a qubit count: the
\* buffer has fewer than 3 amplitudes, and the application aborts.
C21_SwapOnFewerAborts ==
    (SwapApplied /\ Len(inp.qubits) < 2 /\ inp.via # "from_gate")
        => out.applied.state = Panic

\* Swap bound to 3 qubits in range: the application exchanges the amplitudes
\* of local indices 1 and 2 in every block and leaves the others alone.
C21_SwapOnThreeSwapsSilently ==
    (SwapApplied /\ Len(inp.qubits) = 3 /\ inp.via # "from_gate")
        => LET m == out.circuit.gates[1].state_map
           IN  /\ out.applied.state # Panic
               /\ out.applied.state[m[2] + 1] = out.s[m[3] + 1]
               /\ out.applied.state[m[3] + 1] = out.s[m[2] + 1]
               /\ \A i \in {1, 4, 5, 6, 7, 8} :
                      out.applied.state[m[i] + 1] = out.s[m[i] + 1]

-----------------------------------------------------------------------------
(* C22: run() with gates made of circuits stays inside the buffers *)

\* The number of set bits of a qubits_mask
MaskedQubits(mask) == Cardinality({b \in 0..TopBit : Bit(mask, b) = 1})

\* The number of qubits a gate acts on, a circuit of from_gate (no qubit
\* count) acting on the qubits its gate was bound to
RECURSIVE ActsOn(_)
ActsOn(g) ==
    CASE g.kind = "Controlled" -> 1 + ActsOn(g.inner)
      [] g.kind = "Circuit" /\ g.circuit.qubit_count = None ->
            MaskedQubits(g.circuit.gates[1].qubits_mask)
      [] OTHER -> Arity(g)

\* The gate inside the circuit was itself bound to as many qubits as it acts on
InnerBound == inp.via = "plain" \/ Len(inp.qubits) = Arity(inp.gate)

\* run() was called with a gate that add_gate accepted with as many qubit
\* indices as the gate acts on, the gate inside a circuit included
RanAccepted ==
    /\ pc = "added" /\ out.res = "Ok" /\ last.op = "run"
    /\ Len(inp.outer) = ActsOn(out.gate)
    /\ InnerBound

\* C22 (as claimed): run() never indexes an amplitude outside [0, 2^n), and a
\* nested Circuit gate never indexes outside its 2^k buffer, for every gate
\* accepted by add_gate with as many qubit indices as the gate acts on,
\* circuits of from_gate included.  An index outside a buffer is a panic of
\* run(): Circuit::from_gate(Hadamard, [1]) as a gate on [0] indexes amplitude
\* 2 of a buffer of 2.
C22_RunStaysInBounds ==
    RanAccepted => ~aborted

\* The same for plain gates and for circuits of Circuit::new(m): their qubit
\* indices are below m, and run() stays inside every buffer.
C22_BoundedCircuitsStayInBounds ==
    (RanAccepted /\ inp.via # "from_gate") => ~aborted

\* The same for circuits of from_gate whose qubit indices are all below the
\* number of qubits the gate is bound to.
C22_FromGateBelowArityStaysInBounds ==
    (RanAccepted /\ inp.via = "from_gate" /\ AllBelow(inp.qubits, Len(inp.qubits)))
        => ~aborted

\* A circuit of from_gate with a qubit index at or above the number of qubits
\* it is bound to: run() aborts on an index outside the nested buffer.
C22_FromGateAboveArityAborts ==
    (RanAccepted /\ inp.via = "from_gate" /\ ~AllBelow(inp.qubits, Len(inp.qubits)))
        => aborted

=============================================================================
